---- MODULE Spec2Model ----
(***************************************************************************)
(* Model of src/index.js: a three.js viewer that loads an HDR environment  *)
(* and one glTF model, fits the model into the scene, and binds dat.GUI    *)
(* controls to the scene through parameters kept on `window`.              *)
(*                                                                         *)
(* Units.  Parameter values (metalness, intensity, ...) are kept in        *)
(* thousandths, so 0.3 is 300 and 2.257 is 2257.  Geometry (bounding box,  *)
(* scale, position) is exact extended-rational arithmetic: a number is a   *)
(* pair <<n, d>> in lowest terms with d >= 0, where <<1,0>> is +Infinity,  *)
(* <<-1,0>> is -Infinity and <<0,0>> is NaN, which is how JavaScript       *)
(* numbers behave on division by zero.  Rounding of doubles is not         *)
(* modelled.                                                               *)
(***************************************************************************)
EXTENDS Integers, Sequences, FiniteSets, TLC

VARIABLES
    store,          \* the window.* parameters (lines 186-201)
    renderer,       \* renderer.toneMapping / toneMappingExposure (19-20)
    scene,          \* objects added to the scene with scene.add
    background,     \* scene.background: "null" or "hdr"
    environment,    \* scene.environment: "null" or "hdr"
    hdr,            \* the environment texture object handed to the callback
    envLoad,        \* hdrLoader.load: "pending", "loaded" or "failed"
    modelLoad,      \* gltfLoader.load: "pending", "loaded" or "failed"
    gltf,           \* the bounding box of the model in the asset file
    rubberDuck,     \* gltf.scene root transform: scale, position, rotationY
    meshes,         \* the mesh children of the model and their materials
    gui,            \* whether the dat.GUI control panel has been built
    light1,         \* the point light: <<>> until created, then <<record>>
    camera,         \* camera.position
    controlsTarget, \* controls.target
    console,        \* messages this program wrote to the console
    uncaught        \* errors thrown out of a callback

vars == <<store, renderer, scene, background, environment, hdr, envLoad,
          modelLoad, gltf, rubberDuck, meshes, gui, light1, camera,
          controlsTarget, console, uncaught>>

----------------------------------------------------------------------------
(* Bounds of the model *)

MaxMeshes == 2
MaxCoord == 1
MaxExtent == 2

Meshes == 1..MaxMeshes

----------------------------------------------------------------------------
(* JavaScript number arithmetic on <<n, d>> *)

Abs(i) == IF i < 0 THEN -i ELSE i

Sign(i) == IF i < 0 THEN -1 ELSE IF i > 0 THEN 1 ELSE 0

RECURSIVE Gcd(_, _)
Gcd(a, b) == IF b = 0 THEN a ELSE Gcd(b, a % b)

Norm(n, d) ==
    IF d = 0 THEN <<Sign(n), 0>>
    ELSE LET s == IF d < 0 THEN -1 ELSE 1
             g == Gcd(Abs(n), Abs(d))
         IN  <<(s * n) \div g, (s * d) \div g>>

R(i) == <<i, 1>>
NaN == <<0, 0>>

IsFinite(a) == a[2] # 0

Neg(a) == <<-a[1], a[2]>>

Mul(a, b) == Norm(a[1] * b[1], a[2] * b[2])

Add(a, b) ==
    IF a[2] = 0 /\ b[2] = 0
    THEN (IF a = b THEN a ELSE NaN)
    ELSE Norm(a[1] * b[2] + b[1] * a[2], a[2] * b[2])

Sub(a, b) == Add(a, Neg(b))

\* a / b: 5 / 0 is Infinity, 0 / 0 is NaN
Div(a, b) == Norm(a[1] * b[2], a[2] * b[1])

\* for finite a, b
Less(a, b) == a[1] * b[2] < b[1] * a[2]

Max2(a, b) == IF Less(a, b) THEN b ELSE a

MathMax(a, b, c) == Max2(Max2(a, b), c)

----------------------------------------------------------------------------
(* Program constants *)

\* THREE[name]: the tone-mapping constants the option strings resolve to
THREE ==
    [NoToneMapping |-> 0, LinearToneMapping |-> 1, ReinhardToneMapping |-> 2,
     CineonToneMapping |-> 3, ACESFilmicToneMapping |-> 4]

\* the values of the "Tone Mapping" select control
ToneMappingOptions ==
    {"NoToneMapping", "LinearToneMapping", "ReinhardToneMapping",
     "CineonToneMapping", "ACESFilmicToneMapping"}

\* window.defaultMetalness = 0.3, window.defaultRoughness = 0.8
defaultMetalness == 300
defaultRoughness == 800

\* const scaleFactor = 5 / maxDimension
targetSize == 5

\* const cameraDistance = 10
cameraDistance == 10

\* the window.* assignments at the end of the script
WindowDefaults ==
    [envMapIntensity |-> 2257, lightIntensity |-> 3000,
     lightX |-> 250, lightY |-> 3000, lightZ |-> -2250, rotation |-> 0,
     metalness |-> defaultMetalness, roughness |-> defaultRoughness,
     toneMapping |-> "CineonToneMapping", toneMappingExposure |-> 500]

\* Values a control can deliver: points of its [min, max] range on its step
\* grid.  Each set holds the end points or the default where it is on the
\* grid (0.25, -2.25 and 2.257 are not on theirs).
SliderValues ==
    [metalness |-> {0, 300}, roughness |-> {800, 1000},
     toneMappingExposure |-> {0, 500}, envMapIntensity |-> {0, 5000},
     lightIntensity |-> {0, 3000}, lightX |-> {5000},
     lightY |-> {-5000, 3000}, lightZ |-> {-5000},
     rotation |-> {0, 1570}]

----------------------------------------------------------------------------
(* Model Normalizer: lines 45-55 *)

Axes == 1..3

\* box.getSize()
Size(box) == [i \in Axes |-> Sub(box.max[i], box.min[i])]

\* Math.max(size.x, size.y, size.z)
MaxDimension(box) == MathMax(Size(box)[1], Size(box)[2], Size(box)[3])

\* a fit to the height of the model instead of its largest extent
ScaleFactorByHeight(box) == Div(R(targetSize), Size(box)[2])

\* 5 / maxDimension
ScaleFactor(box) == Div(R(targetSize), MaxDimension(box))

\* box.getCenter()
Center(box) == [i \in Axes |-> Mul(Add(box.min[i], box.max[i]), <<1, 2>>)]

\* rubberDuck.scale.setScalar(scaleFactor); position.sub(center);
\* position.setY(-box.min.y * scaleFactor)
Normalize(duck, box) ==
    LET scaleFactor == ScaleFactor(box)
        center == Center(box)
        moved == [i \in Axes |-> Sub(duck.position[i], center[i])]
    IN  [duck EXCEPT
           !.scale = <<scaleFactor, scaleFactor, scaleFactor>>,
           !.position = <<moved[1], Mul(Neg(box.min[2]), scaleFactor), moved[3]>>]

\* The world-space bounding box of the model under the transform of its root:
\* a point p of the asset is drawn at position + scale * p.
WorldBox(duck, box) ==
    [min |-> [i \in Axes |-> Add(Mul(duck.scale[i], box.min[i]), duck.position[i])],
     max |-> [i \in Axes |-> Add(Mul(duck.scale[i], box.max[i]), duck.position[i])]]

----------------------------------------------------------------------------
(* Initial state: the script has run to its end (lines 1-201), both loads  *)
(* have been requested and neither callback has run.                       *)

\* an asset whose bounding box has corner lo and extents ext (integers)
BoxOf(lo, ext) ==
    [min |-> <<R(lo[1]), R(lo[2]), R(lo[3])>>,
     max |-> <<R(lo[1] + ext[1]), R(lo[2] + ext[2]), R(lo[3] + ext[3])>>]

\* the material a mesh has in the asset file, before the callback touches it
AssetMesh ==
    [material |-> [metalness |-> 1000, roughness |-> 1000,
                   toneMapping |-> <<>>, toneMappingExposure |-> <<>>,
                   needsUpdate |-> FALSE],
     castShadow |-> FALSE, receiveShadow |-> FALSE]

InitWith(boxes) ==
    /\ store = WindowDefaults
    /\ renderer = [toneMapping |-> THREE["CineonToneMapping"],
                   toneMappingExposure |-> 500]
    /\ scene = {"ambientLight", "directionalLight"}
    /\ background = "null"
    /\ environment = "null"
    /\ hdr = [mapping |-> "UVMapping", intensity |-> <<>>]
    /\ envLoad = "pending"
    /\ modelLoad = "pending"
    /\ gltf \in boxes
    /\ rubberDuck = [scale |-> <<R(1), R(1), R(1)>>,
                     position |-> <<R(0), R(0), R(0)>>,
                     rotationY |-> 0]
    /\ meshes = [m \in Meshes |-> AssetMesh]
    /\ gui = FALSE
    /\ light1 = <<>>
    /\ camera = [position |-> <<R(0), R(0), R(5)>>]
    /\ controlsTarget = <<R(0), R(0), R(0)>>
    /\ console = <<>>
    /\ uncaught = {}

----------------------------------------------------------------------------
(* Asset loads: lines 30-35 and 38-158 *)

\* hdrLoader.load onLoad
HdrOnLoad ==
    /\ envLoad = "pending"
    /\ envLoad' = "loaded"
    /\ hdr' = [hdr EXCEPT !.mapping = "EquirectangularReflectionMapping"]
    /\ background' = "hdr"
    /\ environment' = "hdr"
    /\ UNCHANGED <<store, renderer, scene, modelLoad, gltf, rubberDuck, meshes,
                   gui, light1, camera, controlsTarget, console, uncaught>>

\* the environment load fails: hdrLoader.load is given no onError callback
HdrLoadFails ==
    /\ envLoad = "pending"
    /\ envLoad' = "failed"
    /\ UNCHANGED <<store, renderer, scene, background, environment, hdr,
                   modelLoad, gltf, rubberDuck, meshes, gui, light1, camera,
                   controlsTarget, console, uncaught>>

\* rubberDuck.traverse at load: the material policy of lines 58-66
MaterialPolicy(ms) ==
    [m \in DOMAIN ms |->
        [material |-> [ms[m].material EXCEPT
                         !.metalness = defaultMetalness,
                         !.roughness = defaultRoughness,
                         !.needsUpdate = TRUE],
         castShadow |-> TRUE, receiveShadow |-> TRUE]]

\* a scene.add that drops what the scene already holds
SceneReplace(objects, added) == added

\* scene.add(rubberDuck); scene.add(light1)
SceneAdd(objects, added) == objects \cup added

\* gltfLoader.load onLoad: lines 41-155
GltfOnLoad ==
    /\ modelLoad = "pending"
    /\ modelLoad' = "loaded"
    /\ console' = Append(console, "Rubber Duck loaded")
    /\ rubberDuck' = Normalize(rubberDuck, gltf)
    /\ meshes' = MaterialPolicy(meshes)
    /\ scene' = SceneAdd(scene, {"rubberDuck", "light1"})
    /\ gui' = TRUE
    /\ light1' = <<[intensity |-> store.lightIntensity,
                    position |-> <<store.lightX, store.lightY, store.lightZ>>]>>
    /\ controlsTarget' = rubberDuck'.position
    /\ camera' = [position |-> <<rubberDuck'.position[1],
                                 Add(rubberDuck'.position[2], R(2)),
                                 Add(rubberDuck'.position[3], R(cameraDistance))>>]
    /\ UNCHANGED <<store, renderer, background, environment, hdr, envLoad,
                   gltf, uncaught>>

\* gltfLoader.load onError: line 157
GltfOnError ==
    /\ modelLoad = "pending"
    /\ modelLoad' = "failed"
    /\ console' = Append(console, "Error loading Rubber Duck:")
    /\ UNCHANGED <<store, renderer, scene, background, environment, hdr,
                   envLoad, gltf, rubberDuck, meshes, gui, light1, camera,
                   controlsTarget, uncaught>>

----------------------------------------------------------------------------
(* Binding layer: the dat.GUI controls and their onChange callbacks,       *)
(* lines 72-148.  A callback is a function of the part of the state the    *)
(* controls can touch.                                                     *)

World ==
    [store |-> store, renderer |-> renderer, meshes |-> meshes,
     light1 |-> light1, environment |-> environment, hdr |-> hdr,
     rubberDuck |-> rubberDuck, uncaught |-> uncaught]

\* the state after a control's event: w
Becomes(w) ==
    /\ store' = w.store
    /\ renderer' = w.renderer
    /\ meshes' = w.meshes
    /\ light1' = w.light1
    /\ hdr' = w.hdr
    /\ rubberDuck' = w.rubberDuck
    /\ uncaught' = w.uncaught
    /\ UNCHANGED <<scene, background, environment, envLoad, modelLoad, gltf,
                   gui, camera, controlsTarget, console>>

\* the controller writes window[property] = value before it calls onChange
SetValue(w, property, value) == [w EXCEPT !.store[property] = value]

\* rubberDuck.traverse(child => if (child.isMesh) ...): assign the given
\* properties on the material of every mesh
Traverse(w, assigned) ==
    [w EXCEPT !.meshes =
        [m \in DOMAIN w.meshes |->
            [w.meshes[m] EXCEPT !.material =
                [f \in DOMAIN w.meshes[m].material |->
                    IF f \in DOMAIN assigned THEN assigned[f]
                    ELSE w.meshes[m].material[f]]]]]

\* lines 76-83
OnMetalness(w) ==
    Traverse(w, [metalness |-> w.store.metalness, needsUpdate |-> TRUE])

\* a copy of the metalness callback left writing metalness
OnRoughnessWritingMetalness(w) ==
    Traverse(w, [metalness |-> w.store.roughness, needsUpdate |-> TRUE])

\* lines 84-91
OnRoughness(w) ==
    Traverse(w, [roughness |-> w.store.roughness, needsUpdate |-> TRUE])

\* a tone-mapping callback that updates the renderer and forgets the materials
OnToneMappingRendererOnly(w) ==
    [w EXCEPT !.renderer.toneMapping = THREE[w.store.toneMapping],
              !.renderer.toneMappingExposure = w.store.toneMappingExposure]

\* lines 101-112
OnToneMapping(w) ==
    LET toneMappingValue == THREE[w.store.toneMapping]
    IN  Traverse([w EXCEPT
                    !.renderer.toneMapping = toneMappingValue,
                    !.renderer.toneMappingExposure = w.store.toneMappingExposure],
                 [toneMapping |-> <<toneMappingValue>>,
                  toneMappingExposure |-> <<w.store.toneMappingExposure>>,
                  needsUpdate |-> TRUE])

\* an exposure callback that mirrors the exposure onto the materials
OnExposureMirrored(w) ==
    Traverse([w EXCEPT
                !.renderer.toneMappingExposure = w.store.toneMappingExposure],
             [toneMappingExposure |-> <<w.store.toneMappingExposure>>,
              needsUpdate |-> TRUE])

\* lines 115-117
OnExposure(w) ==
    [w EXCEPT !.renderer.toneMappingExposure = w.store.toneMappingExposure]

\* lines 140-142: scene.environment.intensity = window.envMapIntensity;
\* the assignment throws a TypeError while scene.environment is null
UpdateEnvironment(w) ==
    IF w.environment = "null"
    THEN [w EXCEPT !.uncaught = @ \cup {"TypeError"}]
    ELSE [w EXCEPT !.hdr.intensity = <<w.store.envMapIntensity>>]

\* lines 145-148
UpdateLights(w) ==
    [w EXCEPT !.light1 =
        <<[intensity |-> w.store.lightIntensity,
           position |-> <<w.store.lightX, w.store.lightY, w.store.lightZ>>]>>]

\* a rotation callback that turns the model by the value instead of to it
OnRotationRelative(w) ==
    [w EXCEPT !.rubberDuck.rotationY = @ + w.store.rotation]

\* lines 126-128
OnRotation(w) == [w EXCEPT !.rubberDuck.rotationY = w.store.rotation]

\* the name of each control's property and the callback registered on it
Properties ==
    {"metalness", "roughness", "toneMapping", "toneMappingExposure",
     "envMapIntensity", "lightIntensity", "lightX", "lightY", "lightZ",
     "rotation"}

Values(property) ==
    IF property = "toneMapping" THEN ToneMappingOptions
    ELSE SliderValues[property]

OnChange(property, w) ==
    CASE property = "metalness" -> OnMetalness(w)
      [] property = "roughness" -> OnRoughness(w)
      [] property = "toneMapping" -> OnToneMapping(w)
      [] property = "toneMappingExposure" -> OnExposure(w)
      [] property = "envMapIntensity" -> UpdateEnvironment(w)
      [] property \in {"lightIntensity", "lightX", "lightY", "lightZ"} ->
            UpdateLights(w)
      [] property = "rotation" -> OnRotation(w)

\* one event of a control: the write to window, then the callback
Event(property, value, w) == OnChange(property, SetValue(w, property, value))

\* The controls exist once the model callback has built the panel; each
\* action is one control delivering one value.

ChangeMetalness ==
    /\ gui
    /\ \E value \in Values("metalness") :
          Becomes(Event("metalness", value, World))

ChangeRoughness ==
    /\ gui
    /\ \E value \in Values("roughness") :
          Becomes(Event("roughness", value, World))

ChangeToneMapping ==
    /\ gui
    /\ \E value \in Values("toneMapping") :
          Becomes(Event("toneMapping", value, World))

ChangeExposure ==
    /\ gui
    /\ \E value \in Values("toneMappingExposure") :
          Becomes(Event("toneMappingExposure", value, World))

ChangeEnvMapIntensity ==
    /\ gui
    /\ \E value \in Values("envMapIntensity") :
          Becomes(Event("envMapIntensity", value, World))

ChangeLightIntensity ==
    /\ gui
    /\ \E value \in Values("lightIntensity") :
          Becomes(Event("lightIntensity", value, World))

ChangeLightX ==
    /\ gui
    /\ \E value \in Values("lightX") :
          Becomes(Event("lightX", value, World))

ChangeLightY ==
    /\ gui
    /\ \E value \in Values("lightY") :
          Becomes(Event("lightY", value, World))

ChangeLightZ ==
    /\ gui
    /\ \E value \in Values("lightZ") :
          Becomes(Event("lightZ", value, World))

ChangeRotation ==
    /\ gui
    /\ \E value \in Values("rotation") :
          Becomes(Event("rotation", value, World))

----------------------------------------------------------------------------
(* Specifications *)

Loads == HdrOnLoad \/ HdrLoadFails \/ GltfOnLoad \/ GltfOnError

Controls ==
    \/ ChangeMetalness
    \/ ChangeRoughness
    \/ ChangeToneMapping
    \/ ChangeExposure
    \/ ChangeEnvMapIntensity
    \/ ChangeLightIntensity
    \/ ChangeLightX
    \/ ChangeLightY
    \/ ChangeLightZ
    \/ ChangeRotation

\* the assets of the viewer runs: the (2, 10, 4) model and a single point
SceneBoxes == {BoxOf(<<-1, 0, 3>>, <<2, 10, 4>>), BoxOf(<<0, 0, 0>>, <<0, 0, 0>>)}

Init == InitWith(SceneBoxes)

Next == Loads \/ Controls

Spec == Init /\ [][Next]_vars

\* the assets of the normalizer runs: every corner and every extent in range
Extents == 0..MaxExtent \cup {4, 10}

NormBoxes ==
    {BoxOf(lo, ext) : lo \in (-MaxCoord..MaxCoord) \X (-MaxCoord..MaxCoord) \X (-MaxCoord..MaxCoord),
                      ext \in Extents \X Extents \X Extents}

InitNorm == InitWith(NormBoxes)

NextNorm == HdrOnLoad \/ HdrLoadFails \/ GltfOnLoad \/ GltfOnError

SpecNorm == InitNorm /\ [][NextNorm]_vars

----------------------------------------------------------------------------
(* Claims *)

Loaded == modelLoad = "loaded"

PositiveVolume(box) == \A i \in Axes : Less(R(0), Size(box)[i])

\* C1: for a positive-volume model, after the load callback the largest
\* extent of the scaled and translated model is targetSize = 5 and its lowest
\* point has y = 0; a model of size (2, 10, 4) gets scaleFactor = 1/2.
NormalizedFit ==
    (Loaded /\ PositiveVolume(gltf)) =>
        LET placed == WorldBox(rubberDuck, gltf)
        IN  /\ MaxDimension(placed) = R(targetSize)
            /\ placed.min[2] = R(0)
            /\ (Size(gltf) = <<R(2), R(10), R(4)>> =>
                    rubberDuck.scale = <<(<<1, 2>>), (<<1, 2>>), (<<1, 2>>)>>)

\* C1 witness: the (2, 10, 4) model, off the origin, has been normalised
NormalizedFitWitness ==
    /\ Loaded
    /\ gltf = BoxOf(<<1, -1, 1>>, <<2, 10, 4>>)
    /\ rubberDuck.scale[1] = <<1, 2>>
    /\ WorldBox(rubberDuck, gltf).min[2] = R(0)

\* C2: for a model whose bounding box has zero extent on every axis the
\* normalisation divides nothing by zero and is a no-op: the scale stays 1
\* (and finite).
DegenerateIsNoOp ==
    (Loaded /\ MaxDimension(gltf) = R(0)) =>
        /\ \A i \in Axes : IsFinite(rubberDuck.scale[i])
        /\ rubberDuck.scale = <<R(1), R(1), R(1)>>

\* C3: after normalisation the model is horizontally centred at the origin:
\* the x and z coordinates of the centre of its world-space bounding box are
\* 0.  Stated for the positive-volume models, whose scale is finite.
CenteredAtOrigin ==
    (Loaded /\ PositiveVolume(gltf)) =>
        LET placed == Center(WorldBox(rubberDuck, gltf))
        IN  placed[1] = R(0) /\ placed[3] = R(0)

\* C4: when the tone-mapping callback returns, the renderer's mode and the
\* mode of every mesh material are equal to each other and to the constant
\* the store's toneMapping resolves to.
ToneMappingAgrees ==
    [][ChangeToneMapping =>
         /\ renderer'.toneMapping = THREE[store'.toneMapping]
         /\ \A m \in Meshes :
               meshes'[m].material.toneMapping = <<renderer'.toneMapping>>]_vars

\* C4 witness: ACESFilmic has been selected and is on the renderer and on
\* every material
ToneMappingAgreesWitness ==
    /\ store.toneMapping = "ACESFilmicToneMapping"
    /\ renderer.toneMapping = THREE["ACESFilmicToneMapping"]
    /\ \A m \in Meshes : meshes[m].material.toneMapping = <<renderer.toneMapping>>

\* C5: the scene holds the ambient and the directional light in every state,
\* and once the model load has succeeded it holds the model and its point
\* light, and the control panel exists, whatever the environment load did.
LightsAndModel ==
    /\ {"ambientLight", "directionalLight"} \subseteq scene
    /\ Loaded => /\ {"rubberDuck", "light1"} \subseteq scene
                 /\ gui
                 /\ light1 # <<>>

\* C5 witness: the environment load failed and the model is in the scene
LightsAndModelWitness ==
    /\ envLoad = "failed"
    /\ Loaded
    /\ scene = {"ambientLight", "directionalLight", "rubberDuck", "light1"}

\* C6: when either load fails an error naming the asset is logged, nothing
\* is thrown and the scene is left as it was; a failed model load creates no
\* model, control panel or point light.
LoadFailureLogged ==
    [][/\ (HdrLoadFails \/ GltfOnError) =>
              /\ Len(console') = Len(console) + 1
              /\ uncaught' = uncaught
              /\ scene' = scene
              /\ background' = background
              /\ environment' = environment
       /\ GltfOnError =>
              /\ console'[Len(console')] = "Error loading Rubber Duck:"
              /\ ~gui'
              /\ light1' = <<>>
              /\ "rubberDuck" \notin scene']_vars

\* scene.environment.intensity, <<>> while there is no environment
SceneEnvironmentIntensity == IF environment = "hdr" THEN hdr.intensity ELSE <<>>

\* C7: wherever the control panel exists, an env-map-intensity event raises
\* no error and leaves the scene's environment intensity equal to the new
\* envMapIntensity.
EnvIntensityApplied ==
    [][ChangeEnvMapIntensity =>
         /\ uncaught' = uncaught
         /\ SceneEnvironmentIntensity' = <<store'.envMapIntensity>>]_vars

\* C8: with model and environment loaded, for every control and every value
\* it can deliver, two events in a row with that value leave the same store
\* and scene as one.
BindingsIdempotent ==
    (Loaded /\ envLoad = "loaded") =>
        \A property \in Properties :
            \A value \in Values(property) :
                Event(property, value, Event(property, value, World))
                    = Event(property, value, World)

\* C8 witness: model and environment are loaded and the rotation and the
\* env-map-intensity controls have acted
BindingsIdempotentWitness ==
    /\ Loaded
    /\ envLoad = "loaded"
    /\ rubberDuck.rotationY = 1570
    /\ hdr.intensity = <<5000>>

MaterialExposure == [m \in Meshes |-> meshes[m].material.toneMappingExposure]

ExposureEvent ==
    ChangeExposure =>
        /\ renderer'.toneMappingExposure = store'.toneMappingExposure
        /\ meshes' = meshes

\* C9 as claimed: an exposure event sets the renderer's exposure and leaves
\* every material's tone-mapping state unchanged, and no other control
\* writes an exposure onto a material.
ExposureNeverOnMaterials ==
    [][ExposureEvent /\ MaterialExposure' = MaterialExposure]_vars

\* C9 as amended: an exposure event sets the renderer's exposure and leaves
\* every material's tone-mapping state unchanged; the only control that
\* writes an exposure onto a material is the tone-mapping mode control,
\* which writes the store's current exposure onto every one.
ExposureOnlyWithMode ==
    [][/\ ExposureEvent
       /\ MaterialExposure' # MaterialExposure =>
              /\ ChangeToneMapping
              /\ \A m \in Meshes :
                    MaterialExposure'[m] = <<store'.toneMappingExposure>>]_vars

\* C9 witness: the exposure control has moved the renderer to 0 and the
\* materials still carry no exposure
ExposureOnlyWithModeWitness ==
    /\ Loaded
    /\ store.toneMappingExposure = 0
    /\ renderer.toneMappingExposure = 0
    /\ \A m \in Meshes : MaterialExposure[m] = <<>>

StoreMatchesSceneNow ==
    Loaded =>
        /\ \A m \in Meshes :
              /\ meshes[m].material.metalness = store.metalness
              /\ meshes[m].material.roughness = store.roughness
        /\ light1 = <<[intensity |-> store.lightIntensity,
                       position |-> <<store.lightX, store.lightY, store.lightZ>>]>>
        /\ rubberDuck.rotationY = store.rotation
        /\ renderer.toneMapping = THREE[store.toneMapping]
        /\ renderer.toneMappingExposure = store.toneMappingExposure

\* C10: in every state after a successful model load, between events, the
\* materials' metalness and roughness, the point light's intensity and
\* position, the model's rotation and the renderer's tone-mapping mode and
\* exposure equal the store's values; right after the load the materials
\* carry 0.3 and 0.8.
StoreMatchesScene ==
    /\ []StoreMatchesSceneNow
    /\ [][GltfOnLoad =>
            \A m \in Meshes :
                /\ meshes'[m].material.metalness = 300
                /\ meshes'[m].material.roughness = 800]_vars

\* C10 witness: several controls have acted since the load
StoreMatchesSceneWitness ==
    /\ Loaded
    /\ store.metalness = 0
    /\ store.roughness = 1000
    /\ store.lightX = 5000
    /\ store.rotation = 1570
    /\ store.toneMapping = "ReinhardToneMapping"
    /\ \A m \in Meshes : meshes[m].material.roughness = 1000

====
